---- MODULE Spec2Model ----
(***************************************************************************)
(* Model of debyten/service-runner (src/serviceRunner.go).                 *)
(*                                                                         *)
(* A runner is assembled with AddRunner / OnClose and then started once    *)
(* with Run (HTTP listener + cancellation watcher + background functions)  *)
(* or Async (background functions only).  Both hand the assembled actors   *)
(* to the embedded run.Group (github.com/oklog/run) and call Group.Run,    *)
(* which launches one goroutine per actor, receives the first result from  *)
(* a buffered channel, calls interrupt(err) on every actor of the group    *)
(* in registration order, receives the remaining results and returns the   *)
(* first one.                                                              *)
(*                                                                         *)
(* Scope: one invocation of Run or Async per runner instance, by a client  *)
(* that assembles the runner and then calls Run / Async, as in the usage   *)
(* comment of Runner (New(..).OnClose(..).Run(mux)): Run and Async block   *)
(* their caller, so this client makes no AddRunner / OnClose call while    *)
(* the run is in progress.                                                 *)
(***************************************************************************)
EXTENDS Naturals, Sequences, FiniteSets

\* Bounds of the model.
MaxRunners == 2
MaxCleanups == 2
\* Calls of the listener actor's interrupt, the group's own call included.
MaxInterrupts == 2
MaxInvocations == 2

\* A background function either returns when its own work is done ("work")
\* or only after it has observed the cancellation signal ("ctx").
FnKinds == {"work", "ctx"}

VARIABLES
    forTesting,    \* runner.forTesting
    runners,       \* runner.runners : sequence of RunFn (by behaviour)
    cleanup,       \* runner.cleanup : sequence of io.Closer (by identity)
    signalFired,   \* ctx.Done() is closed
    mode,          \* "none" | "run" | "async" : the entry point invoked
    pc,            \* position of the goroutine that called Run / Async
    actors,        \* Group.actors
    exec,          \* per actor: "running" | "done" (its execute goroutine)
    result,        \* per actor: "none" | "nil" | "err" (what execute returned)
    errors,        \* the buffered channel of Group.Run
    err,           \* err of Group.Run : "none" | "nil" | "err"
    idx,           \* index of the interrupt loop of Group.Run
    received,      \* number of results Group.Run has received
    interrupts,    \* per actor: number of interrupt calls received
    srv,           \* "none" | "nop" | "new" | "serving" | "stopped" | "closed"
    srvCloses,     \* number of Close calls made on srv
    wpc,           \* watcher execute: "idle" | "wait" | "close" | "loop" | "done"
    wsnap,         \* the slice the watcher ranges over
    wi,            \* number of closers the watcher has called
    released,      \* closers whose Close was called, in call order
    closeErrs,     \* closers whose Close returned an error
    logs,          \* records emitted on the logger
    signalFirst,   \* history: the signal fired while no execute had returned
    firstDone,     \* history: the actor whose execute returned first (0: none)
    lateReturn,    \* history: actors whose execute returned after their interrupt
    serveErr,      \* history: the error srv.ListenAndServe returned ("none": not yet)
    runnersAtRun,  \* history: r.runners when Run / Async was invoked
    cleanupAtRun,  \* history: r.cleanup when Run / Async was invoked
    launched       \* history: per actor, the number of times its execute was started

vars == <<forTesting, runners, cleanup, signalFired, mode, pc, actors, exec,
          result, errors, err, idx, received, interrupts, srv, srvCloses,
          wpc, wsnap, wi, released, closeErrs, logs,
          signalFirst, firstDone, lateReturn, serveErr, runnersAtRun,
          cleanupAtRun, launched>>

groupVars == <<actors, exec, result, errors, err, idx, received, interrupts>>
watcherVars == <<wpc, wsnap, wi, released, closeErrs>>
configVars == <<forTesting, runners, cleanup>>
histVars == <<signalFirst, firstDone, lateReturn>>
invokeVars == <<runnersAtRun, cleanupAtRun, launched>>

----------------------------------------------------------------------------
\* Helpers

Batches(S, n) == UNION {[1..k -> S] : k \in 1..n}

N == Len(actors)

Idx(kind) == {i \in 1..N : actors[i].kind = kind}

Ended == pc \in {"returned", "exited"}

Count(s, x) == Cardinality({i \in 1..Len(s) : s[i] = x})

----------------------------------------------------------------------------
\* New: the runner after construction.

Init ==
    /\ forTesting \in BOOLEAN
    /\ runners = <<>>
    /\ cleanup = <<>>
    /\ signalFired = FALSE
    /\ mode = "none"
    /\ pc = "assembling"
    /\ actors = <<>>
    /\ exec = <<>>
    /\ result = <<>>
    /\ errors = <<>>
    /\ err = "none"
    /\ idx = 0
    /\ received = 0
    /\ interrupts = <<>>
    /\ srv = "none"
    /\ srvCloses = 0
    /\ wpc = "idle"
    /\ wsnap = <<>>
    /\ wi = 0
    /\ released = <<>>
    /\ closeErrs = {}
    /\ logs = {}
    /\ signalFirst = FALSE
    /\ firstDone = 0
    /\ lateReturn = {}
    /\ serveErr = "none"
    /\ runnersAtRun = <<>>
    /\ cleanupAtRun = <<>>
    /\ launched = <<>>

----------------------------------------------------------------------------
\* Assembly: AddRunner, OnClose (serviceRunner.go 98-106).

\* r.runners = append(r.runners, runners...)
AddRunnerCall ==
    /\ \E rs \in Batches(FnKinds, MaxRunners) :
          /\ Len(runners) + Len(rs) <= MaxRunners
          /\ runners' = runners \o rs
    /\ UNCHANGED <<forTesting, cleanup, signalFired, mode, pc, groupVars, srv,
                   srvCloses, watcherVars, logs, histVars, serveErr,
                   invokeVars>>

AddRunner ==
    /\ pc = "assembling"
    /\ AddRunnerCall

\* Closers are identified by their position of registration.
NewClosers(k) == [j \in 1..k |-> Len(cleanup) + j]

\* r.cleanup = append(r.cleanup, cleanup...)
OnCloseCall ==
    /\ \E k \in 1..MaxCleanups :
          /\ Len(cleanup) + k <= MaxCleanups
          /\ cleanup' = cleanup \o NewClosers(k)
    /\ UNCHANGED <<forTesting, runners, signalFired, mode, pc, groupVars, srv,
                   srvCloses, watcherVars, logs, histVars, serveErr,
                   invokeVars>>

OnClose ==
    /\ pc = "assembling"
    /\ OnCloseCall

\* The same calls made from another goroutine while Run / Async is in
\* progress: the code has no guard against them and no synchronisation.
InProgress == pc \in {"first", "interrupt", "join", "finish"}

LateAddRunner ==
    /\ InProgress
    /\ AddRunnerCall

LateOnClose ==
    /\ InProgress
    /\ OnCloseCall

\* The cancellation signal: cancel() of the context handed to Run / Async.
Cancel ==
    /\ pc # "exited"
    /\ ~signalFired
    /\ signalFired' = TRUE
    /\ signalFirst' = (firstDone = 0)
    /\ UNCHANGED <<configVars, mode, pc, groupVars, srv, srvCloses,
                   watcherVars, logs, firstDone, lateReturn, serveErr,
                   invokeVars>>

----------------------------------------------------------------------------
\* The actors Run and Async hand to the group.

Actor(kind, fn) == [kind |-> kind, fn |-> fn]

BgActors(rs) == [i \in 1..Len(rs) |-> Actor("bg", rs[i])]

\* Mutant of ListenerActors: the forTesting test is missing.
ListenerActorsAlways(testing) == <<Actor("listener", "-")>>

\* startHttpServer adds the listener actor unless forTesting (108-127).
ListenerActors(testing) ==
    IF testing THEN <<>> ELSE <<Actor("listener", "-")>>

\* Run: listener (startHttpServer), watcher, one actor per RunFn (150-168).
RunActors(testing, rs) ==
    ListenerActors(testing) \o <<Actor("watcher", "-")>> \o BgActors(rs)

\* Async: one actor per RunFn (130-137).
AsyncActors(rs) == BgActors(rs)

\* What startHttpServer returns: io.NopCloser(nil) or the http.Server.
StartedServer(testing) == IF testing THEN "nop" ELSE "new"

StartRecord(msg, testing) == <<"debug", msg, testing>>

\* r.Add appends to the actors of the embedded group.  Group.Run up to its
\* first receive: nothing to do for an empty group, otherwise one goroutine
\* per actor of the group.
Launch(as) ==
    /\ actors' = as
    /\ launched' = [i \in 1..Len(as) |->
                       IF i <= Len(launched) THEN launched[i] + 1 ELSE 1]
    /\ exec' = [i \in 1..Len(as) |-> "running"]
    /\ result' = [i \in 1..Len(as) |-> "none"]
    /\ interrupts' = [i \in 1..Len(as) |-> 0]
    /\ errors' = <<>>
    /\ received' = 0
    /\ idx' = 0
    /\ IF Len(as) = 0
          THEN /\ err' = "nil"
               /\ pc' = "finish"
          ELSE /\ err' = "none"
               /\ pc' = "first"

Run ==
    /\ pc = "assembling"
    /\ mode' = "run"
    /\ srv' = StartedServer(forTesting)
    /\ wpc' = "wait"
    /\ logs' = logs \cup {StartRecord("group runner start", forTesting)}
    /\ runnersAtRun' = runners
    /\ cleanupAtRun' = cleanup
    /\ Launch(actors \o RunActors(forTesting, runners))
    /\ UNCHANGED <<configVars, signalFired, srvCloses, wsnap, wi, released,
                   closeErrs, signalFirst, firstDone, lateReturn, serveErr>>

Async ==
    /\ pc = "assembling"
    /\ mode' = "async"
    /\ logs' = logs \cup {StartRecord("async runner started", forTesting)}
    /\ runnersAtRun' = runners
    /\ cleanupAtRun' = cleanup
    /\ Launch(actors \o AsyncActors(runners))
    /\ UNCHANGED <<configVars, signalFired, srv, srvCloses, watcherVars,
                   signalFirst, firstDone, lateReturn, serveErr>>

----------------------------------------------------------------------------
\* Group.Run, after the launch.

\* An execute returns: its goroutine sends the result on the channel.
Return(i, r) ==
    /\ exec' = [exec EXCEPT ![i] = "done"]
    /\ result' = [result EXCEPT ![i] = r]
    /\ errors' = Append(errors, r)
    /\ firstDone' = IF firstDone = 0 THEN i ELSE firstDone
    /\ lateReturn' = IF interrupts[i] > 0 THEN lateReturn \cup {i} ELSE lateReturn

\* Mutant of Recv: the result kept is the latest one sent, not the first.
RecvLatest(q) == q[Len(q)]

\* err := <-errors
Recv(q) == Head(q)

RecvFirst ==
    /\ pc = "first"
    /\ errors # <<>>
    /\ err' = Recv(errors)
    /\ errors' = Tail(errors)
    /\ received' = 1
    /\ idx' = 1
    /\ pc' = "interrupt"
    /\ UNCHANGED <<configVars, signalFired, mode, actors, exec, result,
                   interrupts, srv, srvCloses, watcherVars, logs, histVars,
                   serveErr, invokeVars>>

\* The interrupt function of each kind of actor.  Only the listener's does
\* anything: it logs when the group's error is not nil (121-125).
InterruptLogs(kind, e) ==
    IF kind = "listener" /\ e # "nil"
       THEN {<<"error", "http server failure">>}
       ELSE {}

\* Mutant of Deliver: the actor that returned first is skipped.
DeliverToOthers(ints, i) ==
    IF i = firstDone THEN ints ELSE [ints EXCEPT ![i] = @ + 1]

\* Mutant of Deliver: the loop starts at the second actor.
DeliverFromSecond(ints, i) ==
    IF i = 1 THEN ints ELSE [ints EXCEPT ![i] = @ + 1]

\* for _, a := range g.actors { a.interrupt(err) }
Deliver(ints, i) == [ints EXCEPT ![i] = @ + 1]

\* Mutant of InterruptCloses: the listener's interrupt calls srv.Close().
InterruptClosesListener(kind) == IF kind = "listener" THEN 1 ELSE 0

\* The Close calls an actor's interrupt makes on the server: none, for every
\* kind of actor (121-125, 134-136, 159, 165-167).
InterruptCloses(kind) == 0

\* actors[i].interrupt(e)
InterruptCall(i, e) ==
    /\ interrupts' = Deliver(interrupts, i)
    /\ logs' = logs \cup InterruptLogs(actors[i].kind, e)
    /\ srvCloses' = srvCloses + InterruptCloses(actors[i].kind)
    /\ srv' = IF InterruptCloses(actors[i].kind) > 0 THEN "closed" ELSE srv

Interrupt ==
    /\ pc = "interrupt"
    /\ idx <= N
    /\ InterruptCall(idx, err)
    /\ idx' = idx + 1
    /\ pc' = IF idx = N THEN "join" ELSE "interrupt"
    /\ UNCHANGED <<configVars, signalFired, mode, actors, exec, result, errors,
                   err, received, watcherVars, histVars, serveErr, invokeVars>>

\* The listener actor's interrupt called once more, with any outcome, by
\* some other caller than the group's loop.
DirectInterrupt ==
    /\ pc \notin {"assembling", "exited"}
    /\ \E i \in Idx("listener"), e \in {"nil", "err"} :
          /\ interrupts[i] < MaxInterrupts
          /\ InterruptCall(i, e)
    /\ UNCHANGED <<configVars, signalFired, mode, pc, actors, exec, result,
                   errors, err, idx, received, watcherVars, histVars, serveErr,
                   invokeVars>>

\* Mutant of JoinTarget: the join loop stops one receive early.
JoinTargetShort(n) == n - 1

\* for i := 1; i < cap(errors); i++ { <-errors }
JoinTarget(n) == n

JoinRecv ==
    /\ pc = "join"
    /\ received < JoinTarget(N)
    /\ errors # <<>>
    /\ errors' = Tail(errors)
    /\ received' = received + 1
    /\ UNCHANGED <<configVars, signalFired, mode, pc, actors, exec, result,
                   err, idx, interrupts, srv, srvCloses, watcherVars, logs,
                   histVars, serveErr, invokeVars>>

\* return err
GroupReturn ==
    /\ pc = "join"
    /\ received >= JoinTarget(N)
    /\ pc' = "finish"
    /\ UNCHANGED <<configVars, signalFired, mode, groupVars, srv, srvCloses,
                   watcherVars, logs, histVars, serveErr, invokeVars>>

\* Mutant of ShouldExit: the test is inverted.
ShouldExitInverted(e) == e = "nil"

\* if err != nil { logger.Error(...); os.Exit(1) }   (143-146, 174-178)
ShouldExit(e) == e # "nil"

FailureRecord(m) ==
    <<"error", "group runner failure", IF m = "run" THEN "sync" ELSE "async">>

Finish ==
    /\ pc = "finish"
    /\ IF ShouldExit(err)
          THEN /\ logs' = logs \cup {FailureRecord(mode)}
               /\ pc' = "exited"
          ELSE /\ logs' = logs
               /\ pc' = "returned"
    /\ UNCHANGED <<configVars, signalFired, mode, groupVars, srv, srvCloses,
                   watcherVars, histVars, serveErr, invokeVars>>

----------------------------------------------------------------------------
\* The listener actor's execute (114-120): srv.ListenAndServe().

\* Mutant of ServeResult: http.ErrServerClosed is not told apart.
ServeResultRaw(e) == "err"

\* if err != nil && !errors.Is(err, http.ErrServerClosed) { return err }; return nil
ServeResult(e) == IF e # "ErrServerClosed" THEN "err" ELSE "nil"

\* ListenAndServe binds the address and starts to accept.
ListenerBind ==
    /\ \E i \in Idx("listener") : exec[i] = "running"
    /\ srv = "new"
    /\ srv' = "serving"
    /\ UNCHANGED <<configVars, signalFired, mode, pc, groupVars, srvCloses,
                   watcherVars, logs, histVars, serveErr, invokeVars>>

\* ListenAndServe returns an error of its own: the bind fails (srv "new") or
\* accepting fails (srv "serving").
ListenerFail ==
    /\ \E i \in Idx("listener") :
          /\ exec[i] = "running"
          /\ srv \in {"new", "serving"}
          /\ srv' = "stopped"
          /\ serveErr' = "address in use"
          /\ Return(i, ServeResult("address in use"))
    /\ UNCHANGED <<configVars, signalFired, mode, pc, actors, err, idx,
                   received, interrupts, srvCloses, watcherVars, logs,
                   signalFirst, invokeVars>>

\* ListenAndServe returns http.ErrServerClosed once srv.Close() was called.
ListenerClosed ==
    /\ \E i \in Idx("listener") :
          /\ exec[i] = "running"
          /\ srv = "closed"
          /\ serveErr' = "ErrServerClosed"
          /\ Return(i, ServeResult("ErrServerClosed"))
    /\ UNCHANGED <<configVars, signalFired, mode, pc, actors, err, idx,
                   received, interrupts, srv, srvCloses, watcherVars, logs,
                   signalFirst, invokeVars>>

----------------------------------------------------------------------------
\* The cancellation watcher's execute (152-158).

\* Mutant of Woken: the receive does not block.
WokenAlways(fired) == TRUE

\* <-ctx.Done() unblocks once the context is cancelled.
Woken(fired) == fired

\* <-ctx.Done()
WatcherWake ==
    /\ \E i \in Idx("watcher") : exec[i] = "running"
    /\ wpc = "wait"
    /\ Woken(signalFired)
    /\ wpc' = "close"
    /\ UNCHANGED <<configVars, signalFired, mode, pc, groupVars, srv,
                   srvCloses, wsnap, wi, released, closeErrs, logs, histVars,
                   serveErr, invokeVars>>

\* Mutant of CloseSrv: the server is left as it is.
CloseSrvSkipped(s) == s

\* srv.Close() on what startHttpServer returned.
CloseSrv(s) == IF s = "nop" THEN "nop" ELSE "closed"

\* Mutant of RangeCleanup: the last closer is left out.
RangeCleanupShort(c) == SubSeq(c, 1, Len(c) - 1)

\* range r.cleanup: the slice is read once, when the loop starts.
RangeCleanup(c) == c

\* What the watcher's goroutine can read in r.cleanup: the appends made
\* before Run started it, with or without those made since, which nothing
\* orders with the read.
Visible(atRun, now) == {SubSeq(now, 1, k) : k \in Len(atRun)..Len(now)}

\* _ = srv.Close(); for _, closer := range r.cleanup
WatcherClose ==
    /\ wpc = "close"
    /\ srv' = CloseSrv(srv)
    /\ srvCloses' = srvCloses + 1
    /\ \E c \in Visible(cleanupAtRun, cleanup) : wsnap' = RangeCleanup(c)
    /\ wi' = 0
    /\ wpc' = "loop"
    /\ UNCHANGED <<configVars, signalFired, mode, pc, groupVars, released,
                   closeErrs, logs, histVars, serveErr, invokeVars>>

\* Mutant of NextCloser: the closers are called last to first.
NextCloserReversed(snap, k) == snap[Len(snap) - k + 1]

\* The closer the loop calls in its k-th iteration.
NextCloser(snap, k) == snap[k]

\* Mutant of NextIndex: the loop is left when a Close returns an error.
NextIndexBreak(i, n, failed) == IF failed THEN n ELSE i + 1

\* The number of closers done with after one more call, i of n having been
\* called before: the error of Close is dropped (_ = closer.Close()), so the
\* loop goes on to the next closer.
NextIndex(i, n, failed) == i + 1

\* _ = closer.Close(): the error, if any, is dropped.
WatcherRelease ==
    /\ wpc = "loop"
    /\ wi < Len(wsnap)
    /\ released' = Append(released, NextCloser(wsnap, wi + 1))
    /\ \E failed \in BOOLEAN :
          /\ wi' = NextIndex(wi, Len(wsnap), failed)
          /\ closeErrs' = IF failed
                             THEN closeErrs \cup {NextCloser(wsnap, wi + 1)}
                             ELSE closeErrs
    /\ UNCHANGED <<configVars, signalFired, mode, pc, groupVars, srv,
                   srvCloses, wpc, wsnap, logs, histVars, serveErr, invokeVars>>

\* return nil
WatcherReturn ==
    /\ wpc = "loop"
    /\ wi >= Len(wsnap)
    /\ wpc' = "done"
    /\ \E i \in Idx("watcher") : Return(i, "nil")
    /\ UNCHANGED <<configVars, signalFired, mode, pc, actors, err, idx,
                   received, interrupts, srv, srvCloses, wsnap, wi, released,
                   closeErrs, logs, signalFirst, serveErr, invokeVars>>

----------------------------------------------------------------------------
\* A background actor's execute (131-133, 162-164): runFn(ctx); return nil.

\* runFn(ctx) can return: at any time for a function that ends with its
\* work, after the signal for one that waits for ctx.Done().
FnCanReturn(fn) == fn = "work" \/ signalFired

\* Mutant of BgResult: the wrapper returns ctx.Err() after the function.
BgResultCtxErr(fn) == IF signalFired THEN "err" ELSE "nil"

\* runFn(ctx); return nil
BgResult(fn) == "nil"

BgReturn ==
    /\ \E i \in Idx("bg") :
          /\ exec[i] = "running"
          /\ FnCanReturn(actors[i].fn)
          /\ Return(i, BgResult(actors[i].fn))
    /\ UNCHANGED <<configVars, signalFired, mode, pc, actors, err, idx,
                   received, interrupts, srv, srvCloses, watcherVars, logs,
                   signalFirst, serveErr, invokeVars>>

----------------------------------------------------------------------------
\* Steps the program takes by itself: no new call from the client, no
\* cancellation and no fault of the network.
ProgramStep ==
    \/ RecvFirst
    \/ Interrupt
    \/ JoinRecv
    \/ GroupReturn
    \/ Finish
    \/ ListenerBind
    \/ ListenerClosed
    \/ WatcherWake
    \/ WatcherClose
    \/ WatcherRelease
    \/ WatcherReturn
    \/ BgReturn

Next ==
    \/ AddRunner
    \/ OnClose
    \/ Cancel
    \/ Run
    \/ Async
    \/ RecvFirst
    \/ Interrupt
    \/ JoinRecv
    \/ GroupReturn
    \/ Finish
    \/ ListenerBind
    \/ ListenerFail
    \/ ListenerClosed
    \/ WatcherWake
    \/ WatcherClose
    \/ WatcherRelease
    \/ WatcherReturn
    \/ BgReturn

Spec == Init /\ [][Next]_vars

\* The same program, with further direct calls of the listener's interrupt.
NextDirect ==
    \/ Next
    \/ DirectInterrupt

SpecDirect == Init /\ [][NextDirect]_vars

\* The same program, with a client that goes on calling AddRunner / OnClose
\* during the run.
NextLate ==
    \/ Next
    \/ LateAddRunner
    \/ LateOnClose

SpecLate == Init /\ [][NextLate]_vars

\* Async called again on a runner whose earlier Run / Async has returned.
\* Nothing empties r.runners or the actors of the embedded group, so the
\* loop adds an actor for every registered function once more and Group.Run
\* launches every actor the group holds: a listener starts serving again, a
\* watcher waits for the signal again.
AsyncAgain ==
    /\ pc = "returned"
    /\ \A i \in 1..N : launched[i] < MaxInvocations
    /\ mode' = "async"
    /\ logs' = logs \cup {StartRecord("async runner started", forTesting)}
    /\ runnersAtRun' = runners
    /\ cleanupAtRun' = cleanup
    /\ Launch(actors \o AsyncActors(runners))
    /\ wpc' = IF Idx("watcher") = {} THEN wpc ELSE "wait"
    /\ serveErr' = "none"
    /\ firstDone' = 0
    /\ lateReturn' = {}
    /\ signalFirst' = FALSE
    /\ UNCHANGED <<configVars, signalFired, srv, srvCloses, wsnap, wi,
                   released, closeErrs>>

NextReuse ==
    \/ Next
    \/ AsyncAgain

SpecReuse == Init /\ [][NextReuse]_vars

----------------------------------------------------------------------------
\* Properties

FanOutDone == pc \in {"join", "finish", "returned", "exited"}

AllDone == \A i \in 1..N : exec[i] = "done"

ListenerFailedFirst ==
    /\ firstDone \in Idx("listener")
    /\ result[firstDone] = "err"

C2_JoinBeforeReturn ==
    pc \in {"finish", "returned", "exited"} => AllDone

C2_Witness ==
    /\ pc = "returned"
    /\ mode = "run"
    /\ Idx("listener") # {}
    /\ Idx("watcher") # {}
    /\ Cardinality(Idx("bg")) >= 2
    /\ AllDone

\* C3: the outcome Run / Async acts on is the result of the execute that
\* returned first; results returned later, a Failure returned after the
\* interrupt included, never replace it, and the process exits exactly when
\* that first result is a Failure.
C3_FirstOutcome ==
    /\ (err # "none" /\ N > 0) => err = result[firstDone]
    /\ (Ended /\ N > 0) => (pc = "exited" <=> result[firstDone] = "err")

C3_Witness ==
    /\ pc = "returned"
    /\ \E i \in lateReturn : result[i] = "err"
    /\ result[firstDone] = "nil"

Closers == {cleanup[j] : j \in 1..Len(cleanup)}

\* C4, as stated: in Run, when the signal fired before any execute had
\* returned, Run ends by returning normally, with every registered cleanup
\* released exactly once in registration order.
C4_Original ==
    (mode = "run" /\ signalFirst /\ Ended) =>
        (pc = "returned" /\ released = cleanup)

\* C4, amended: in Run, when the signal fired before any execute had
\* returned, Run ends with every registered cleanup released exactly once in
\* registration order, and it ends by returning normally unless the
\* listener's execute was the first to return and returned a Failure.
C4_SignalFirst ==
    (mode = "run" /\ signalFirst /\ Ended) =>
        /\ released = cleanup
        /\ pc = "returned" \/ ListenerFailedFirst

C4_Witness ==
    /\ mode = "run"
    /\ signalFirst
    /\ pc = "returned"
    /\ firstDone \in Idx("watcher")
    /\ Len(cleanup) >= 2
    /\ released = cleanup

\* C5: in every run with a listener, no cleanup is released while the
\* listener is not closed, whichever actor returned first.
C5_CloseBeforeCleanup ==
    (released # <<>> /\ Idx("listener") # {}) => srv = "closed"

C5_Witness ==
    /\ released # <<>>
    /\ Idx("listener") # {}
    /\ srv = "closed"
    /\ firstDone \in Idx("bg")

\* C6, as stated: in Run outside testing mode, when a background function
\* returned first and the signal has not fired, Run has ended or goes on
\* towards its end by the program's own steps (the listener's interrupt
\* closes the listener, its execute returns, the others are halted), without
\* waiting for the signal.
C6_Original ==
    (mode = "run" /\ ~forTesting /\ firstDone \in Idx("bg") /\ ~signalFired) =>
        (Ended \/ ENABLED ProgramStep)

\* C7, as stated: in Run, when the listener's execute returned a Failure
\* first, the signal has not fired and every background function has
\* returned, Run has terminated the process or goes on to do so by the
\* program's own steps.
C7_Original ==
    (/\ mode = "run"
     /\ ListenerFailedFirst
     /\ ~signalFired
     /\ \A i \in Idx("bg") : exec[i] = "done") =>
        (pc = "exited" \/ ENABLED ProgramStep)

\* C8: when a run started by Run has ended, by return or by process exit,
\* each registered cleanup has been released exactly once, whichever actor
\* returned first; and no cleanup is ever released twice.
C8_ReleasedOnce ==
    /\ \A c \in Closers : Count(released, c) <= 1
    /\ (mode = "run" /\ Ended) => \A c \in Closers : Count(released, c) = 1

C8_Witness ==
    /\ mode = "run"
    /\ pc = "exited"
    /\ ListenerFailedFirst
    /\ Len(cleanup) >= 2
    /\ \A c \in Closers : Count(released, c) = 1

\* C9, as stated: when the signal has fired and Async has ended, every
\* registered cleanup has been released exactly once in registration order.
C9_Original ==
    (mode = "async" /\ signalFired /\ Ended) => released = cleanup

\* C10: the process is terminated only on a Failure outcome, with the failure
\* logged and every actor joined; Run / Async returns normally only on a
\* Success outcome, with no failure logged.
C10_ExitOnFailure ==
    /\ pc = "exited" =>
          /\ err = "err"
          /\ FailureRecord(mode) \in logs
          /\ AllDone
    /\ pc = "returned" =>
          /\ err = "nil"
          /\ FailureRecord(mode) \notin logs

C10_Witness ==
    /\ pc = "exited"
    /\ err = "err"
    /\ FailureRecord("run") \in logs
    /\ Idx("bg") # {}

\* C11: a background actor's execute never returns a Failure; the process
\* exits with a non-zero status only when the listener's execute returned a
\* Failure first, and never in a run started by Async.
C11_BackgroundNeverFails ==
    /\ \A i \in Idx("bg") : result[i] \in {"none", "nil"}
    /\ (err = "err" \/ pc = "exited") => ListenerFailedFirst
    /\ mode = "async" => (pc # "exited" /\ err # "err")

C11_Witness ==
    /\ pc = "returned"
    /\ mode = "run"
    /\ firstDone \in Idx("bg")
    /\ signalFired
    /\ \A i \in Idx("bg") : result[i] = "nil"
    /\ Cardinality(Idx("bg")) >= 2

\* C12: the listener's execute returns Success exactly when ListenAndServe
\* ended with http.ErrServerClosed, which happens only after the server was
\* closed, and Failure when it ended with any other error; a run whose
\* listener ended by being closed never terminates the process.
C12_ClosedIsSuccess ==
    \A i \in Idx("listener") :
        /\ exec[i] = "done" =>
              /\ serveErr # "none"
              /\ result[i] = "nil" <=> serveErr = "ErrServerClosed"
              /\ result[i] = "err" <=> serveErr # "ErrServerClosed"
        /\ serveErr = "ErrServerClosed" => (srv = "closed" /\ pc # "exited")

C12_Witness ==
    /\ pc = "returned"
    /\ firstDone \in Idx("listener")
    /\ serveErr = "ErrServerClosed"
    /\ result[firstDone] = "nil"

\* C13: whatever errors the releases return, the watcher releases the
\* closers of its list one after the other in order, all of them by the time
\* it returns; it returns Success, and a failed release never makes the
\* outcome of Run a Failure.
C13_ReleaseErrorsDropped ==
    /\ wpc = "loop" => released = SubSeq(wsnap, 1, wi)
    /\ wpc = "done" => released = wsnap
    /\ \A i \in Idx("watcher") : result[i] \in {"none", "nil"}
    /\ (closeErrs # {} /\ err = "err") => ListenerFailedFirst

C13_Witness ==
    /\ pc = "returned"
    /\ wpc = "done"
    /\ Len(cleanup) >= 2
    /\ cleanup[1] \in closeErrs
    /\ released = cleanup
    /\ \A i \in Idx("watcher") : result[i] = "nil"

\* C14: in a run started by Run in testing mode the group holds no listener
\* actor and nothing is ever bound or served, while the watcher and one actor
\* per registered background function are launched; when such a run has
\* ended, the cleanups have been released in registration order.
C14_TestingMode ==
    (forTesting /\ mode = "run") =>
        /\ Idx("listener") = {}
        /\ srv = "nop"
        /\ serveErr = "none"
        /\ Idx("watcher") = {1}
        /\ SubSeq(actors, 2, N) = BgActors(runnersAtRun)
        /\ \A i \in 1..N : launched[i] = 1
        /\ wpc = "loop" => released = SubSeq(cleanup, 1, wi)
        /\ Ended => (signalFired /\ released = cleanup)

C14_Witness ==
    /\ forTesting
    /\ mode = "run"
    /\ pc = "returned"
    /\ Cardinality(Idx("bg")) >= 2
    /\ Len(cleanup) >= 2
    /\ released = cleanup

\* C17: no interrupt is invoked before some execute has returned, and by the
\* time the group has received every result, so before Run / Async returns
\* or terminates the process, every actor other than the one that returned
\* first has received its interrupt.
C17_InterruptOrdering ==
    /\ (\E i \in 1..N : interrupts[i] > 0) => (firstDone # 0 /\ err # "none")
    /\ (N > 0 /\ (received = N \/ pc \in {"finish", "returned", "exited"})) =>
          \A i \in (1..N) \ {firstDone} : interrupts[i] >= 1

C17_Witness ==
    /\ pc = "returned"
    /\ N >= 3
    /\ Cardinality(lateReturn) >= 2
    /\ \A i \in (1..N) \ {firstDone} : interrupts[i] = 1

\* C19: a run started by Run is past its join (and so has returned or has
\* terminated the process) only if the signal has fired, whichever actor
\* returned first: the watcher's execute goes past its wait, and returns,
\* only after the signal.
C19_NoEndBeforeSignal ==
    /\ (mode = "run" /\ pc \in {"finish", "returned", "exited"}) => signalFired
    /\ wpc \in {"close", "loop", "done"} => signalFired
    /\ \A i \in Idx("watcher") : exec[i] = "done" => signalFired

C19_Witness ==
    /\ mode = "run"
    /\ pc = "exited"
    /\ ListenerFailedFirst
    /\ ~signalFirst
    /\ signalFired

\* C16: however often the listener actor's interrupt is invoked, and with
\* whatever outcomes, the server is closed at most once, and only by the
\* watcher: the interrupt itself closes nothing.
C16_InterruptRepeatable ==
    /\ srvCloses <= 1
    /\ srvCloses = 1 <=> wpc \in {"loop", "done"}
    /\ srv = "closed" => srvCloses = 1

C16_Witness ==
    /\ \E i \in Idx("listener") : interrupts[i] >= 2 /\ exec[i] = "running"
    /\ <<"error", "http server failure">> \in logs
    /\ srv = "serving"
    /\ srvCloses = 0

\* The actors of the current group that wrap background functions, in order.
LaunchedFns == [i \in 1..Cardinality(Idx("bg")) |->
                   actors[N - Cardinality(Idx("bg")) + i]]

\* C15, as stated: once Run / Async is invoked, the background functions
\* launched are those registered at the invocation, and when a run started
\* by Run has ended the cleanups released are those registered at the
\* invocation, whatever AddRunner / OnClose calls were made since.
C15_Original ==
    mode # "none" =>
        /\ LaunchedFns = BgActors(runnersAtRun)
        /\ (mode = "run" /\ Ended) => released = cleanupAtRun

\* C18, as stated: over any sequence of invocations on one runner, no actor
\* is launched more than once.
C18_Original == \A i \in 1..N : launched[i] <= 1

====
